---- MODULE Spec2Model ----
(***************************************************************************)
(* govfs: an in-memory, path-addressed virtual filesystem (src/govfs.go,   *)
(* the draft of lines 388-1273, the one src/govfs_test.go exercises).      *)
(*                                                                         *)
(* Modelled here: the namespace map `meta`, the byte counter `t_size`, the *)
(* facade calls Create / Write / Delete / UnmountDB / CreateDatabase, the  *)
(* create-serialization lock, the unbuffered ingress queue io_in (a        *)
(* rendezvous between a client and the dispatcher) and the one-shot reply  *)
(* channel io_out of every envelope.                                       *)
(*                                                                         *)
(* Representation.  A Go string is a sequence of one-character strings, a  *)
(* []byte is a sequence of one-character strings as well (string(data) is  *)
(* a byte-preserving copy).  A FlagVal bitmask is the set of the flag      *)
(* names whose bit is set: x |= F is x \cup {F}, (x & F) > 0 is F \in x.   *)
(* A Go map is a function whose DOMAIN is the set of keys present; a key   *)
(* may be present with the value nil.  MD5 is taken to be collision free:  *)
(* a digest is the tagged pre-image.  Reads and writes of the map are      *)
(* atomic steps.                                                           *)
(***************************************************************************)
EXTENDS Integers, Sequences, FiniteSets, TLC

VARIABLES
    meta,         \* FSHeader.meta: digest key -> *govfsFile (possibly nil)
    t_size,       \* FSHeader.t_size
    flags,        \* FSHeader.flags, as passed to CreateDatabase
    create_sync,  \* FSHeader.create_sync: its holder, if any
    disp,         \* the dispatcher goroutine: receiving, or replying to a client
    pc,           \* per client: where it is inside its facade call
    req,          \* per client: the call in progress and its envelope
    ret,          \* the facade call that returned in the last step, and its result
    disk,         \* the image file written by UnmountDB
    crashed,      \* the process died of a runtime panic
    nops,         \* number of facade calls that got past the facade's checks
    reader,       \* the Reader the client holds (the zero Reader before NewReader)
    writer        \* the Writer the client holds (the zero Writer before NewWriter)

vars == <<meta, t_size, flags, create_sync, disp, pc, req, ret, disk, crashed, nops,
          reader, writer>>
views == <<reader, writer>>

-----------------------------------------------------------------------------
(* Bounds of the model *)

MaxOps == 3
MaxLen == 2
MaxOffset == 4

(* Two clients: the fewest that can race *)
Clients == {"c1", "c2"}
NoClient == "none"

(* Program constants *)

MAX_FILENAME_LENGTH == 256

MAGIC == <<"g", "o", "f", "s", "_", "m", "a", "g", "i", "c">>
FS_SIGNATURE == <<"g", "o", "v", "f", "s", "_", "h", "e", "a", "d", "e", "r">>

ROOT == <<"/">>

(* The paths the clients use and the payload bytes they write *)
Paths ==
    { <<"/">>,
      <<"/", "a">>,
      <<"/", "a", "/">>,
      <<"/", "a", "/", "b">> }

\* A path one byte longer than MAX_FILENAME_LENGTH
LongName == [i \in 1..(MAX_FILENAME_LENGTH + 1) |-> IF i = 1 THEN "/" ELSE "x"]

\* The paths Create is called with where its length test is exercised
CreatePaths == Paths \cup {LongName}

\* The payloads written: the prefixes of the byte pattern of the tests,
\* []byte{1, 2, 3, ...}, the empty one included, and the pattern's last byte alone
ByteName == <<"1", "2", "3", "4", "5", "6", "7", "8", "9">>
Pattern == SubSeq(ByteName, 1, MaxLen)
Payloads ==
    { SubSeq(Pattern, 1, j) : j \in 0..MaxLen } \cup { SubSeq(Pattern, MaxLen, MaxLen) }

-----------------------------------------------------------------------------
(* Values *)

NIL == [nil |-> TRUE]   \* the nil pointer
NoErr == "nil"          \* the nil error

\* s(): hex(md5(name + "gofs_magic"))
s(name) == <<"md5", name \o MAGIC>>

\* new(govfsFile): the zero value
NewFile == [filename |-> <<>>, flags |-> {}, datasum |-> <<>>, data |-> <<>>]

\* m[k] of a Go map: nil when the key is missing
MapGet(m, k) == IF k \in DOMAIN m THEN m[k] ELSE NIL

\* m[k] = v
MapSet(m, k, v) == [x \in (DOMAIN m) \cup {k} |-> IF x = k THEN v ELSE m[x]]

\* delete(m, k)
MapDelete(m, k) == [x \in (DOMAIN m) \ {k} |-> m[x]]

\* FSHeader.check
check(m, name) == MapGet(m, s(name))

-----------------------------------------------------------------------------
(* Pure helpers *)

\* index of the first "/" of str, 0 when there is none
RECURSIVE IndexSlash(_, _)
IndexSlash(str, i) ==
    IF i > Len(str) THEN 0
    ELSE IF str[i] = "/" THEN i
    ELSE IndexSlash(str, i + 1)

\* strings.Split(str, "/")
RECURSIVE Split(_)
Split(str) ==
    LET i == IndexSlash(str, 1)
    IN  IF i = 0 THEN << str >>
        ELSE << SubSeq(str, 1, i - 1) >> \o Split(SubSeq(str, i + 1, Len(str)))

\* string(name[len(name) - 1:]) == "/"   (name is not empty)
EndsInSlash(name) == name[Len(name)] = "/"

\* (mutant) a loop body that does not look first whether the key is taken
SubDirectory_Overwrites(m, tmp) ==
    MapSet(m, s(tmp),
           [NewFile EXCEPT !.filename = tmp \o <<"/">>,
                           !.flags = @ \cup {"FLAG_DIRECTORY"}])

\* The closure of IRP_CREATE's loop body: one sub-directory header
SubDirectory(m, tmp) ==
    IF check(m, tmp) # NIL THEN m
    ELSE MapSet(m, s(tmp),
                [NewFile EXCEPT !.filename = tmp \o <<"/">>,
                                !.flags = @ \cup {"FLAG_DIRECTORY"}])

\* for e := range sub_array { tmp += "/" + sub_array[e]; ... }
RECURSIVE SubDirectories(_, _, _, _)
SubDirectories(m, sub_array, e, tmp) ==
    IF e > Len(sub_array) THEN m
    ELSE LET tmp2 == tmp \o <<"/">> \o sub_array[e]
         IN  SubDirectories(SubDirectory(m, tmp2), sub_array, e + 1, tmp2)

\* What the dispatcher sets on the new entry from the last byte of the name
KindOf(name) == IF EndsInSlash(name) THEN {"FLAG_DIRECTORY"} ELSE {"FLAG_FILE"}

\* The body of case IRP_CREATE: the map afterwards, or a runtime panic part-way
createIRP(m, name) ==
    LET m1 == MapSet(m, s(name), [NewFile EXCEPT !.filename = name])
    IN  IF Len(name) = 0
        THEN [panic |-> TRUE, meta |-> m1]           \* name[len(name)-1:] out of range
        ELSE
          LET m2 == MapSet(m1, s(name), [m1[s(name)] EXCEPT !.flags = @ \cup KindOf(name)])
              sub_strings == Split(name)
          IN  IF Len(sub_strings) - 2 < 0
              THEN [panic |-> TRUE, meta |-> m2]     \* make([]string, -1)
              ELSE
                LET sub_array == SubSeq(sub_strings, 2, Len(sub_strings) - 1)
                IN  [panic |-> FALSE, meta |-> SubDirectories(m2, sub_array, 1, <<>>)]

\* A slice fresh from make([]byte, n): n zero bytes
Zeros(n) == [i \in 1..n |-> "0"]

\* (mutant) a writeInternal without its test for an empty payload
writeInternalMake_TruncatesOnEmpty(t, d, data) ==
    LET t2 == IF Len(data) >= Len(d.data)
              THEN t + (Len(data) - Len(d.data))
              ELSE t - (Len(d.data) - Len(data))
    IN  [t_size |-> t2, file |-> [d EXCEPT !.data = Zeros(Len(data))]]

\* (mutant) a writeInternal that adds every payload to the counter
writeInternalMake_Accumulates(t, d, data) ==
    IF Len(data) = 0
    THEN [t_size |-> t, file |-> d]
    ELSE [t_size |-> t + Len(data), file |-> [d EXCEPT !.data = Zeros(Len(data))]]

\* FSHeader.writeInternal up to d.data = make([]byte, len(data)): the counter is
\* adjusted and the entry holds a zeroed slice of the new length
writeInternalMake(t, d, data) ==
    IF Len(data) = 0
    THEN [t_size |-> t, file |-> d]
    ELSE LET t2 == IF Len(data) >= Len(d.data)
                   THEN t + (Len(data) - Len(d.data))
                   ELSE t - (Len(d.data) - Len(data))
         IN  [t_size |-> t2, file |-> [d EXCEPT !.data = Zeros(Len(data))]]

\* FSHeader.writeInternal from copy(d.data, data) on: the bytes, the digest, the count
writeInternalCopy(d, data) ==
    IF Len(data) = 0
    THEN [file |-> d, n |-> Len(data)]
    ELSE LET d2 == [d EXCEPT !.data = data, !.datasum = s(data)]
         IN  [file |-> d2, n |-> Len(d2.data)]

\* FSHeader.writeInternal on the entry d: the new counter, the new entry, the count
writeInternal(t, d, data) ==
    LET made == writeInternalMake(t, d, data)
        copied == writeInternalCopy(made.file, data)
    IN  [t_size |-> made.t_size, file |-> copied.file, n |-> copied.n]

\* (mutant) an IRP_DELETE that reports success and leaves the entry in its slot
deleteIRP_KeepsEntry(m, name) ==
    IF check(m, name) # NIL
    THEN [meta |-> m, status |-> NoErr]
    ELSE [meta |-> m, status |-> "IRP_DELETE generic error"]

\* The body of case IRP_DELETE once the envelope is not the root's
deleteIRP(m, name) ==
    IF check(m, name) # NIL
    THEN [meta |-> MapSet(MapDelete(m, s(name)), s(name), NIL), status |-> NoErr]
    ELSE [meta |-> m, status |-> "IRP_DELETE generic error"]

(* Facade queries *)

\* FSHeader.Check
Check(name) == check(meta, name)

\* FSHeader.Read: the bytes and the error
Read(name) ==
    LET file_header == check(meta, name)
    IN  IF file_header = NIL
        THEN [data |-> <<>>, err |-> "read: File does not exist"]
        ELSE IF "FLAG_DIRECTORY" \in file_header.flags
        THEN [data |-> <<>>, err |-> "read: Cannot read a directory"]
        ELSE [data |-> file_header.data, err |-> NoErr]

\* FSHeader.GetFileSize
GetFileSize(name) ==
    LET file == check(meta, name)
    IN  IF file = NIL
        THEN [size |-> 0, err |-> "GetFileSize: File does not exist"]
        ELSE [size |-> Len(file.data), err |-> NoErr]

\* FSHeader.GetTotalFilesizes
GetTotalFilesizes == t_size

\* FSHeader.GetFileCount: every key of the map counts
GetFileCount(m) == Cardinality(DOMAIN m)

-----------------------------------------------------------------------------
(* The image: UnmountDB writes it, CreateDatabase(FLAG_DB_LOAD) reads it *)

NoImage == [exists |-> FALSE]

\* gzip and the stream cipher, as opaque transforms: a complete gzip stream of x,
\* and RC4 with the key of getFsKey (a keystream XOR, so its own inverse)
Gzip(x) == [gzip |-> x]
RC4(x) == IF "rc4" \in DOMAIN x THEN x.rc4 ELSE [rc4 |-> x]

\* What a gzip.Writer has put in its buffer after Write and before Close: the
\* ten bytes of the gzip header, none of the data
GzipHeader == <<"1f", "8b", "08", "00", "00", "00", "00", "00", "00", "ff">>

\* The record and the appended bytes one worker of UnmountDB sends for entry d
RawRecord(d, uflags) ==
    LET hasData == "FLAG_FILE" \in d.flags /\ Len(d.data) > 0
        zipped == hasData /\ "FLAG_COMPRESS_FILES" \in uflags
    IN  [RawSum |-> d.datasum,
         Flags |-> IF zipped THEN d.flags \cup {"FLAG_COMPRESS_FILES"} ELSE d.flags,
         Name |-> d.filename,
         UnzippedLen |-> IF hasData THEN Len(d.data) ELSE 0,
         bytes |-> IF zipped THEN GzipHeader ELSE IF hasData THEN d.data ELSE <<>>]

\* UnmountDB dereferences f.meta[k] for every key k: a nil slot is a nil dereference
UnmountPanics(m) == \E k \in DOMAIN m : m[k] = NIL

\* The stream UnmountDB hands to writeFsStream: the header, then one record per
\* worker that sends (all but the root's), here indexed by the worker's key
UnmountStream(m, uflags) ==
    LET senders == { k \in DOMAIN m : m[k].filename # ROOT }
    IN  [hdr |-> [Signature |-> FS_SIGNATURE, FileCount |-> GetFileCount(m) - 1],
         recs |-> [k \in senders |-> RawRecord(m[k], uflags)]]

\* FSHeader.writeFsStream: the bytes of the file; the cipher is handed the
\* stream as it came in, not the compressed one
writeFsStream(data, fl) ==
    LET compressed == IF "FLAG_COMPRESS" \in fl THEN Gzip(data) ELSE data
        ciphertext == IF "FLAG_ENCRYPT" \in fl THEN RC4(data) ELSE compressed
    IN  [exists |-> TRUE, bytes |-> ciphertext]

\* readFsStream: with FLAG_COMPRESS the gzip reader is built on a buffer that
\* was never filled, NewReader fails and ioutil.ReadAll runs on the nil reader
readFsStream(file, fl) ==
    LET plaintext == IF "FLAG_ENCRYPT" \in fl THEN RC4(file.bytes) ELSE file.bytes
    IN  IF "FLAG_COMPRESS" \in fl
        THEN [panic |-> TRUE, data |-> plaintext]
        ELSE [panic |-> FALSE, data |-> plaintext]

\* (mutant) a loop body that does not verify the sums
LoadRecord_NoSumCheck(h, r) ==
    LET k == s(r.Name)
        e1 == [filename |-> r.Name, flags |-> r.Flags, data |-> r.bytes, datasum |-> r.RawSum]
    IN  IF ~h.ok THEN h
        ELSE [h EXCEPT !.meta = MapSet(h.meta, k, e1), !.t_size = h.t_size + r.UnzippedLen]

\* The result of a load that stops
LoadFails(h, panic, err) ==
    [ok |-> FALSE, panic |-> panic, err |-> err, meta |-> h.meta, t_size |-> h.t_size]

\* (mutant) a loop body that sets the counter to the length of the record at
\* hand instead of adding that length to it
LoadRecord_SizeOfLast(h, r) ==
    LET k == s(r.Name)
        e1 == [filename |-> r.Name, flags |-> r.Flags,
               data |-> SubSeq(r.bytes, 1, r.UnzippedLen),
               datasum |-> IF r.UnzippedLen > 0 THEN r.RawSum ELSE <<>>]
    IN  IF ~h.ok THEN h
        ELSE [h EXCEPT !.meta = MapSet(h.meta, k, e1), !.t_size = r.UnzippedLen]

\* loadHeader's loop body for one record
LoadRecord(h, r) ==
    LET k == s(r.Name)
        e0 == [filename |-> r.Name, flags |-> r.Flags, data |-> <<>>, datasum |-> <<>>]
        n == IF r.UnzippedLen <= Len(r.bytes) THEN r.UnzippedLen ELSE Len(r.bytes)
        raw_file_data == SubSeq(r.bytes, 1, n)
    IN  IF ~h.ok THEN h
        ELSE IF r.UnzippedLen > 0
        THEN IF "FLAG_COMPRESS_FILES" \in r.Flags
             THEN \* gzip.NewReader fails on less than a header and gzipd.Close()
                  \* runs on nil; on a header without data gzipd.Read fails
                  LoadFails([h EXCEPT !.meta = MapSet(h.meta, k, e0)],
                            Len(raw_file_data) < Len(GzipHeader), "gzip: unexpected EOF")
             ELSE LET e1 == [e0 EXCEPT !.datasum = r.RawSum, !.data = raw_file_data]
                      h1 == [h EXCEPT !.meta = MapSet(h.meta, k, e1),
                                      !.t_size = h.t_size + r.UnzippedLen]
                  IN  IF s(e1.data) = e1.datasum THEN h1
                      ELSE LoadFails(h1, FALSE, "Invalid file sum")
        ELSE [h EXCEPT !.meta = MapSet(h.meta, k, e0)]

RECURSIVE LoadRecords(_, _, _)
LoadRecords(h, recs, todo) ==
    IF todo = {} THEN h
    ELSE LET k == CHOOSE x \in todo : TRUE
         IN  LoadRecords(LoadRecord(h, recs[k]), recs, todo \ {k})

\* loadHeader's loop over the records as they lie in the stream: order is the
\* sequence of their keys in the order UnmountDB received them from its workers
RECURSIVE LoadRecordsInOrder(_, _, _)
LoadRecordsInOrder(h, recs, order) ==
    IF order = <<>> THEN h
    ELSE LoadRecordsInOrder(LoadRecord(h, recs[Head(order)]), recs, Tail(order))

\* loadHeader on a stream whose header has the signature and whose records lie
\* in the given order
loadHeaderInOrder(data, order) ==
    LoadRecordsInOrder([ok |-> TRUE, panic |-> FALSE, err |-> NoErr,
                        meta |-> MapSet(<< >>, s(ROOT), [NewFile EXCEPT !.filename = ROOT]),
                        t_size |-> 0],
                       data.recs, order)

\* loadHeader: the handle built from a stream, or failure; bytes that are not a
\* gob stream fail to decode
loadHeader(data) ==
    LET none == [ok |-> FALSE, panic |-> FALSE, err |-> NoErr, meta |-> << >>, t_size |-> 0]
    IN  IF "hdr" \notin DOMAIN data THEN [none EXCEPT !.err = "gob: decoding failed"]
        ELSE IF data.hdr.Signature # FS_SIGNATURE THEN none   \* return nil, err with err == nil
        ELSE LoadRecords([ok |-> TRUE, panic |-> FALSE, err |-> NoErr,
                          meta |-> MapSet(<< >>, s(ROOT), [NewFile EXCEPT !.filename = ROOT]),
                          t_size |-> 0],
                         data.recs, DOMAIN data.recs)

\* CreateDatabase(name, fl): the handle, an error (ok false) or a runtime panic
CreateDatabase(file, fl) ==
    LET none == [ok |-> FALSE, panic |-> FALSE, meta |-> << >>, t_size |-> 0,
                 err |-> "Invalid header. Failed to generate database header"]
        raw == readFsStream(file, fl)
        loaded == IF "FLAG_DB_LOAD" \in fl /\ file.exists
                  THEN IF raw.panic THEN [none EXCEPT !.panic = TRUE]
                       ELSE loadHeader(raw.data)
                  ELSE none
        created == [ok |-> TRUE, panic |-> FALSE, err |-> NoErr,
                    meta |-> MapSet(<< >>, s(ROOT), [NewFile EXCEPT !.filename = ROOT]),
                    t_size |-> 0]
    IN  IF "FLAG_DB_LOAD" \in fl /\ file.exists /\ ~loaded.ok THEN loaded
        ELSE IF "FLAG_DB_CREATE" \in fl THEN created
        ELSE loaded

-----------------------------------------------------------------------------
(* The state machine *)

NoReq == [op |-> "none", name |-> <<>>, data |-> <<>>, file |-> NIL]
NoRet == [by |-> NoClient, op |-> "none", name |-> <<>>, data |-> <<>>,
          err |-> NoErr, was |-> NIL]
Receiving == [st |-> "recv"]

\* io.EOF
EOF == "EOF"

\* The zero Reader and the zero Writer. Reader.File points to an entry: Live
\* while that entry is still the one in its slot of the map, Detached (with the
\* bytes it was left with) once the slot was cleared or given a new entry
NoReader == [Name |-> <<>>, File |-> NIL, Offset |-> 0]
NoWriter == [Name |-> <<>>]
Live == [live |-> TRUE]
Detached(data) == [live |-> FALSE, data |-> data]

\* f.File.data
FileData(m, rd) ==
    IF rd.File = NIL THEN <<>>
    ELSE IF rd.File.live THEN m[s(rd.Name)].data
    ELSE rd.File.data

\* The Reader after the dispatcher put nil or a new entry (replaced) in the slot
\* of name: its File keeps pointing to the entry that was there
Detach(rd, name, replaced) ==
    IF replaced /\ rd.File # NIL /\ rd.File.live /\ s(rd.Name) = s(name)
    THEN [rd EXCEPT !.File = Detached(FileData(meta, rd))]
    ELSE rd

\* CreateDatabase(name, FLAG_DB_CREATE): the root alone
CreateHandle ==
    [meta |-> MapSet(<< >>, s(ROOT), [NewFile EXCEPT !.filename = ROOT]),
     t_size |-> 0, flags |-> {"FLAG_DB_CREATE"}, disk |-> NoImage]

\* An image left on disk by an earlier run: that run created SeedPath, wrote
\* Pattern to it and unmounted
SeedPath == <<"/", "a", "/", "b">>
SeedImage ==
    LET m1 == createIRP(CreateHandle.meta, SeedPath).meta
        w == writeInternal(0, m1[s(SeedPath)], Pattern)
    IN  writeFsStream(UnmountStream(MapSet(m1, s(SeedPath), w.file), {}), {"FLAG_DB_CREATE"})

\* CreateDatabase(name, FLAG_DB_LOAD) on that image
LoadHandle ==
    LET h == CreateDatabase(SeedImage, {"FLAG_DB_LOAD"})
    IN  [meta |-> h.meta, t_size |-> h.t_size, flags |-> {"FLAG_DB_LOAD"},
         disk |-> SeedImage]

\* CreateDatabase in create mode or in load mode, followed by StartIOController
Init ==
    /\ \E h \in {CreateHandle, LoadHandle} :
          /\ meta = h.meta
          /\ t_size = h.t_size
          /\ flags = h.flags
          /\ disk = h.disk
    /\ create_sync = NoClient
    /\ disp = Receiving
    /\ pc = [c \in Clients |-> "idle"]
    /\ req = [c \in Clients |-> NoReq]
    /\ ret = NoRet
    /\ crashed = FALSE
    /\ nops = 0
    /\ reader = NoReader
    /\ writer = NoWriter

CanCall(c) == ~crashed /\ pc[c] = "idle" /\ nops < MaxOps

\* The slot of the map a path hashes to: ABSENT, nil, or an entry
ABSENT == [absent |-> TRUE]
Slot(m, name) == IF s(name) \in DOMAIN m THEN m[s(name)] ELSE ABSENT

\* ret records the call, its error value and, for the record, what the slot of
\* the path held just before the call took effect
Return(c, op, name, data, err, was) ==
    ret' = [by |-> c, op |-> op, name |-> name, data |-> data, err |-> err, was |-> was]

NoReturn == ret' = NoRet

\* (mutant) the facade of Create without its existence test
CreateRejection_NoExistenceTest(m, name) ==
    IF Len(name) > MAX_FILENAME_LENGTH THEN "create: File name is too long" ELSE NoErr

\* (mutant) the facade of Create without its length test
CreateRejection_NoLengthTest(m, name) ==
    IF check(m, name) # NIL THEN "create: File already exists" ELSE NoErr

\* FSHeader.Create up to create_sync.Lock(): the two rejections of the facade
CreateRejection(m, name) ==
    IF check(m, name) # NIL THEN "create: File already exists"
    ELSE IF Len(name) > MAX_FILENAME_LENGTH THEN "create: File name is too long"
    ELSE NoErr

CreateCall(c, name) ==
    /\ CanCall(c)
    /\ LET err == CreateRejection(meta, name)
       IN  IF err # NoErr
           THEN /\ Return(c, "Create", name, <<>>, err, Slot(meta, name))
                /\ UNCHANGED <<pc, req, nops>>
           ELSE /\ pc' = [pc EXCEPT ![c] = "lock"]
                /\ req' = [req EXCEPT ![c] = [op |-> "Create", name |-> name,
                                              data |-> <<>>, file |-> NIL]]
                /\ nops' = nops + 1
                /\ NoReturn
    /\ UNCHANGED <<meta, t_size, flags, create_sync, disp, disk, crashed>>
    /\ UNCHANGED views

\* f.create_sync.Lock(); generateIRP(name, nil, IRP_CREATE)
CreateLock(c) ==
    /\ ~crashed
    /\ pc[c] = "lock"
    /\ create_sync = NoClient
    /\ create_sync' = c
    /\ pc' = [pc EXCEPT ![c] = "send"]
    /\ NoReturn
    /\ UNCHANGED <<meta, t_size, flags, disp, req, disk, crashed, nops>>
    /\ UNCHANGED views

\* generateIRP for IRP_WRITE and IRP_DELETE: the entry the envelope points to,
\* known by the one field the dispatcher reads through that pointer
generateIRP(m, name) ==
    LET file_header == check(m, name)
    IN  IF file_header = NIL THEN NIL
        ELSE [filename |-> file_header.filename, live |-> TRUE]

\* The envelopes after the dispatcher put nil or a new entry (replaced) in the
\* slot of name: their file pointers keep pointing to the entry that was there
DetachEnvelopes(name, replaced) ==
    [o \in Clients |->
        IF replaced /\ req[o].file # NIL /\ s(req[o].name) = s(name)
        THEN [req[o] EXCEPT !.file.live = FALSE]
        ELSE req[o]]

\* (mutant) the facade of Write without its existence test
WriteRejection_NoExistenceTest(m, name) == NoErr

\* FSHeader.Write's rejections: the path has no entry
WriteRejection(m, name) ==
    IF check(m, name) = NIL THEN "write: Cannot write to nonexistent file"
    ELSE IF generateIRP(m, name) = NIL THEN "write: Failed to generate IRP_WRITE"
    ELSE NoErr

\* FSHeader.Write up to the send on io_in; the payload d is any of Payloads
WriteCall(c, name) ==
    /\ CanCall(c)
    /\ LET err == WriteRejection(meta, name)
       IN  IF err # NoErr
           THEN /\ Return(c, "Write", name, <<>>, err, Slot(meta, name))
                /\ UNCHANGED <<pc, req, nops>>
           ELSE /\ \E d \in Payloads :
                     req' = [req EXCEPT ![c] = [op |-> "Write", name |-> name, data |-> d,
                                               file |-> generateIRP(meta, name)]]
                /\ pc' = [pc EXCEPT ![c] = "send"]
                /\ nops' = nops + 1
                /\ NoReturn
    /\ UNCHANGED <<meta, t_size, flags, create_sync, disp, disk, crashed>>
    /\ UNCHANGED views

\* FSHeader.Delete's rejection: generateIRP found no entry
DeleteRejection(m, name) ==
    IF generateIRP(m, name) = NIL THEN "delete: File does not exist" ELSE NoErr

\* FSHeader.Delete up to the send on io_in
DeleteCall(c, name) ==
    /\ CanCall(c)
    /\ LET err == DeleteRejection(meta, name)
       IN  IF err # NoErr
           THEN /\ Return(c, "Delete", name, <<>>, err, Slot(meta, name))
                /\ UNCHANGED <<pc, req, nops>>
           ELSE /\ pc' = [pc EXCEPT ![c] = "send"]
                /\ req' = [req EXCEPT ![c] = [op |-> "Delete", name |-> name, data |-> <<>>,
                                              file |-> generateIRP(meta, name)]]
                /\ nops' = nops + 1
                /\ NoReturn
    /\ UNCHANGED <<meta, t_size, flags, create_sync, disp, disk, crashed>>
    /\ UNCHANGED views

\* The envelope a facade call sends: Writer.Write sends FSHeader.Write's
Envelope(op) == IF op = "Writer.Write" THEN "Write" ELSE op

Sending(c, op) ==
    ~crashed /\ pc[c] = "send" /\ Envelope(req[c].op) = op /\ disp = Receiving

\* The dispatcher blocked on io_out <- ioh; `was` is the slot before the request
Replying(c, status) ==
    [st |-> "reply", to |-> c, status |-> status, was |-> Slot(meta, req[c].name)]

\* The dispatcher receives an IRP_CREATE envelope and runs its case
DispatchCreate(c) ==
    /\ Sending(c, "Create")
    /\ LET r == createIRP(meta, req[c].name)
       IN  /\ meta' = r.meta
           /\ crashed' = r.panic
           /\ disp' = IF r.panic THEN disp ELSE Replying(c, NoErr)
    /\ pc' = [pc EXCEPT ![c] = "wait"]
    /\ NoReturn
    /\ req' = DetachEnvelopes(req[c].name, TRUE)
    /\ UNCHANGED <<t_size, flags, create_sync, disk, nops>>
    /\ reader' = Detach(reader, req[c].name, TRUE)
    /\ UNCHANGED writer

\* (mutant) the dispatcher without its root test
DeleteIsRoot_Never(file) == FALSE

\* case IRP_DELETE: is the envelope's entry the root?
DeleteIsRoot(file) == file.filename = ROOT

\* The dispatcher receives an IRP_DELETE envelope and runs its case
DispatchDelete(c) ==
    /\ Sending(c, "Delete")
    /\ IF DeleteIsRoot(req[c].file)
       THEN /\ disp' = Replying(c, "IRP_DELETE: Tried to delete the root file")
            /\ UNCHANGED meta
       ELSE LET r == deleteIRP(meta, req[c].name)
            IN  /\ meta' = r.meta
                /\ disp' = Replying(c, r.status)
    /\ pc' = [pc EXCEPT ![c] = "wait"]
    /\ NoReturn
    /\ req' = DetachEnvelopes(req[c].name, Slot(meta', req[c].name) = NIL)
    /\ UNCHANGED <<t_size, flags, create_sync, disk, crashed, nops>>
    /\ reader' = Detach(reader, req[c].name, Slot(meta', req[c].name) = NIL)
    /\ UNCHANGED writer

\* The dispatcher inside writeInternal, the entry's slice made and not yet filled
Writing(c) == [st |-> "write", to |-> c, was |-> Slot(meta, req[c].name)]

\* The entry whose lock the dispatcher holds: inside writeInternal it is the
\* entry the envelope points to, ioh.file
LockHeld == IF disp.st = "write" THEN req[disp.to].file ELSE NIL

\* The dispatcher receives an IRP_WRITE envelope, takes the entry's lock and runs
\* writeInternal up to the make; when the path has no entry any more it sends
\* nothing and goes back to receiving
DispatchWrite(c) ==
    /\ Sending(c, "Write")
    /\ LET i == check(meta, req[c].name)
       IN  IF i # NIL
           THEN LET w == writeInternalMake(t_size, i, req[c].data)
                IN  /\ meta' = MapSet(meta, s(req[c].name), w.file)
                    /\ t_size' = w.t_size
                    /\ disp' = Writing(c)
           ELSE UNCHANGED <<meta, t_size, disp>>
    /\ pc' = [pc EXCEPT ![c] = "wait"]
    /\ NoReturn
    /\ UNCHANGED <<flags, create_sync, req, disk, crashed, nops>>
    /\ UNCHANGED views

\* The dispatcher finishes writeInternal (copy, digest), releases the lock and
\* blocks on the reply
WriteCopy(c) ==
    /\ ~crashed
    /\ disp.st = "write"
    /\ disp.to = c
    /\ LET w == writeInternalCopy(check(meta, req[c].name), req[c].data)
           status == IF w.n = Len(req[c].data) THEN NoErr
                     ELSE "IRP_WRITE: Failed to write to filesystem"
       IN  /\ meta' = MapSet(meta, s(req[c].name), w.file)
           /\ disp' = [st |-> "reply", to |-> c, status |-> status, was |-> disp.was]
    /\ NoReturn
    /\ UNCHANGED <<t_size, flags, create_sync, pc, req, disk, crashed, nops>>
    /\ UNCHANGED views

\* Writer.Write's results from the error value of FSHeader.Write
WriterResult(p, err) ==
    IF err # NoErr THEN [n |-> 0, err |-> err] ELSE [n |-> Len(p), err |-> EOF]

\* The client receives the reply on io_out and returns from the facade call
Reply(c) ==
    /\ ~crashed
    /\ pc[c] = "wait"
    /\ disp.st = "reply"
    /\ disp.to = c
    /\ IF req[c].op = "Writer.Write"
       THEN LET r == WriterResult(req[c].data, disp.status)
            IN  Return(c, req[c].op, req[c].name, req[c].data, r.err,
                       [n |-> r.n, slot |-> disp.was])
       ELSE Return(c, req[c].op, req[c].name, req[c].data, disp.status, disp.was)
    /\ create_sync' = IF req[c].op = "Create" THEN NoClient ELSE create_sync
    /\ disp' = Receiving
    /\ pc' = [pc EXCEPT ![c] = "idle"]
    /\ req' = [req EXCEPT ![c] = NoReq]
    /\ UNCHANGED <<meta, t_size, flags, disk, crashed, nops>>
    /\ UNCHANGED views

(* IRP_PURGE *)

\* The dispatcher goroutine has returned and io_in is closed
Terminated == [st |-> "closed"]

\* (mutant) a case IRP_PURGE that goes on with the loop
AfterPurge_KeepsReceiving == Receiving

\* case IRP_PURGE: close(header.io_in); return
AfterPurge == Terminated

\* A goroutine of the package builds an envelope with operation IRP_PURGE and
\* sends it on io_in (no facade function does)
PurgeCall(c) ==
    /\ CanCall(c)
    /\ pc' = [pc EXCEPT ![c] = "send"]
    /\ req' = [req EXCEPT ![c] = [op |-> "Purge", name |-> <<>>, data |-> <<>>,
                                  file |-> NIL]]
    /\ nops' = nops + 1
    /\ NoReturn
    /\ UNCHANGED <<meta, t_size, flags, create_sync, disp, disk, crashed>>
    /\ UNCHANGED views

\* The dispatcher receives an IRP_PURGE envelope: the sender's send completes,
\* nothing is sent back
DispatchPurge(c) ==
    /\ Sending(c, "Purge")
    /\ disp' = AfterPurge
    /\ pc' = [pc EXCEPT ![c] = "idle"]
    /\ req' = [req EXCEPT ![c] = NoReq]
    /\ Return(c, "Purge", <<>>, <<>>, NoErr, NIL)
    /\ UNCHANGED <<meta, t_size, flags, create_sync, disk, crashed, nops>>
    /\ UNCHANGED views

\* f.io_in <- irp on the closed channel: panic: send on closed channel
SendOnClosed(c) ==
    /\ ~crashed
    /\ pc[c] = "send"
    /\ disp = Terminated
    /\ crashed' = TRUE
    /\ NoReturn
    /\ UNCHANGED <<meta, t_size, flags, create_sync, disp, pc, req, disk, nops>>
    /\ UNCHANGED views

(* The Reader and Writer views *)

\* FSHeader.NewReader
NewReader(c, name) ==
    /\ ~crashed
    /\ pc[c] = "idle"
    /\ IF check(meta, name) = NIL
       THEN /\ Return(c, "NewReader", name, <<>>, "File not found", Slot(meta, name))
            /\ UNCHANGED reader
       ELSE /\ reader' = [Name |-> name, File |-> Live, Offset |-> 0]
            /\ Return(c, "NewReader", name, <<>>, NoErr, Slot(meta, name))
    /\ UNCHANGED <<meta, t_size, flags, create_sync, disp, pc, req, disk, crashed, nops,
                   writer>>

\* The built-in copy(dst, src): dst afterwards
copy(dst, src) == [i \in 1..Len(dst) |-> IF i <= Len(src) THEN src[i] ELSE dst[i]]

\* Reader.Read(r): the count and error returned, the buffer and the offset afterwards
ReaderRead(m, rd, r) ==
    LET got == Read(rd.Name)
        data == got.data
    IN  IF rd.Name = <<>> \/ rd.File = NIL \/ Len(FileData(m, rd)) < 1
        THEN [n |-> 0, err |-> NoErr, r |-> r, Offset |-> rd.Offset]
        ELSE IF got.err # NoErr \/ Len(data) = 0
        THEN [n |-> 0, err |-> got.err, r |-> r, Offset |-> rd.Offset]
        ELSE IF Len(r) < Len(data)
        THEN [n |-> Len(data) - Len(r) - 1, err |-> NoErr,
              r |-> copy(r, SubSeq(data, 1, Len(data) - Len(r) - 1)),
              Offset |-> rd.Offset + Len(r)]
        ELSE [n |-> Len(data), err |-> EOF, r |-> copy(r, data), Offset |-> rd.Offset]

\* The buffers handed to Reader.Read: make([]byte, n)
Buffers == { Zeros(n) : n \in 0..(MaxLen + 2) }

\* A call of Reader.Read; the caller stops once the offset has passed MaxOffset
ReaderReadCall(c, r) ==
    /\ ~crashed
    /\ pc[c] = "idle"
    /\ reader.Offset + Len(r) <= MaxOffset
    /\ LET res == ReaderRead(meta, reader, r)
       IN  /\ reader' = [reader EXCEPT !.Offset = res.Offset]
           /\ Return(c, "Reader.Read", reader.Name, res.r, res.err,
                     [n |-> res.n, r |-> r, reader |-> reader])
    /\ UNCHANGED <<meta, t_size, flags, create_sync, disp, pc, req, disk, crashed, nops,
                   writer>>

\* FSHeader.NewWriter
NewWriter(c, name) ==
    /\ ~crashed
    /\ pc[c] = "idle"
    /\ IF check(meta, name) = NIL
       THEN /\ Return(c, "NewWriter", name, <<>>, "File not found", Slot(meta, name))
            /\ UNCHANGED writer
       ELSE /\ writer' = [Name |-> name]
            /\ Return(c, "NewWriter", name, <<>>, NoErr, Slot(meta, name))
    /\ UNCHANGED <<meta, t_size, flags, create_sync, disp, pc, req, disk, crashed, nops,
                   reader>>

\* (mutant) a Writer.Write that forwards the empty buffer too
WriterRejection_NoLengthTest(m, name, p) == WriteRejection(m, name)

\* Writer.Write up to the send on io_in: its own length test, then the
\* rejections of FSHeader.Write
WriterRejection(m, name, p) ==
    IF Len(p) < 1 THEN "Invalid write stream length" ELSE WriteRejection(m, name)

\* The byte slices handed to Writer.Write
WriterPayloads == { <<>>, SubSeq(ByteName, 1, MaxLen + 1) }

\* A call of Writer.Write(p) up to the send on io_in
WriterWriteCall(c, p) ==
    /\ CanCall(c)
    /\ LET err == WriterRejection(meta, writer.Name, p)
       IN  IF err # NoErr
           THEN /\ Return(c, "Writer.Write", writer.Name, p, err,
                          [n |-> 0, slot |-> Slot(meta, writer.Name)])
                /\ UNCHANGED <<pc, req, nops>>
           ELSE /\ req' = [req EXCEPT ![c] = [op |-> "Writer.Write", name |-> writer.Name,
                                              data |-> p,
                                              file |-> generateIRP(meta, writer.Name)]]
                /\ pc' = [pc EXCEPT ![c] = "send"]
                /\ nops' = nops + 1
                /\ NoReturn
    /\ UNCHANGED <<meta, t_size, flags, create_sync, disp, disk, crashed>>
    /\ UNCHANGED views

\* The flag sets UnmountDB is called with
UnmountFlags == { {} }

\* No call is in progress and the dispatcher is waiting for an envelope
Quiescent == (\A c \in Clients : pc[c] = "idle") /\ disp = Receiving

\* FSHeader.UnmountDB(uflags)
UnmountDB(c, uflags) ==
    /\ CanCall(c)
    /\ nops' = nops + 1
    /\ IF UnmountPanics(meta)
       THEN /\ crashed' = TRUE
            /\ NoReturn
            /\ UNCHANGED disk
       ELSE /\ disk' = writeFsStream(UnmountStream(meta, uflags), flags)
            /\ Return(c, "UnmountDB", <<>>, <<>>, NoErr, [uflags |-> uflags])
            /\ UNCHANGED crashed
    /\ UNCHANGED <<meta, t_size, flags, create_sync, disp, pc, req>>
    /\ UNCHANGED views

\* CreateDatabase(name, fl), then StartIOController on the handle it returns:
\* a new handle, taken up once the old one is quiet
Remount(fl) ==
    /\ ~crashed
    /\ nops < MaxOps
    /\ Quiescent
    /\ nops' = nops + 1
    /\ LET h == CreateDatabase(disk, fl)
       IN  IF h.panic
           THEN /\ crashed' = TRUE
                /\ NoReturn
                /\ UNCHANGED <<meta, t_size, flags>>
           ELSE /\ IF h.ok
                   THEN /\ meta' = h.meta
                        /\ t_size' = h.t_size
                        /\ flags' = fl
                   ELSE UNCHANGED <<meta, t_size, flags>>
                /\ Return(NoClient, "CreateDatabase", <<>>, <<>>, h.err,
                          [flags |-> fl, handle |-> h.ok])
                /\ UNCHANGED crashed
    /\ UNCHANGED <<create_sync, disp, pc, req, disk>>
    /\ UNCHANGED views

\* CreateDatabase(name, FLAG_DB_LOAD) on the image that is on disk
CreateDatabaseLoad == disk.exists /\ Remount({"FLAG_DB_LOAD"})

\* CreateDatabase(name, FLAG_DB_LOAD | FLAG_DB_CREATE), whatever is on disk
CreateDatabaseLoadOrCreate == Remount({"FLAG_DB_LOAD", "FLAG_DB_CREATE"})

\* FSHeader.Commit: UnmountDB(0), then CreateDatabase(f.filename, FLAG_DB_LOAD)
\* and StartIOController; the caller goes on with the handle Commit returns
Commit(c) ==
    /\ CanCall(c)
    /\ Quiescent
    /\ nops' = nops + 1
    /\ IF UnmountPanics(meta)
       THEN /\ crashed' = TRUE
            /\ NoReturn
            /\ UNCHANGED <<meta, t_size, flags, disk>>
       ELSE LET file == writeFsStream(UnmountStream(meta, {}), flags)
                h == CreateDatabase(file, {"FLAG_DB_LOAD"})
            IN  /\ disk' = file
                /\ IF h.panic
                   THEN /\ crashed' = TRUE
                        /\ NoReturn
                        /\ UNCHANGED <<meta, t_size, flags>>
                   ELSE /\ IF h.ok
                           THEN /\ meta' = h.meta
                                /\ t_size' = h.t_size
                                /\ flags' = {"FLAG_DB_LOAD"}
                           ELSE UNCHANGED <<meta, t_size, flags>>
                        /\ Return(c, "Commit", <<>>, <<>>, h.err,
                                  [handle |-> h.ok, before |-> meta])
                        /\ UNCHANGED crashed
    /\ UNCHANGED <<create_sync, disp, pc, req>>
    /\ UNCHANGED views

Next ==
    \/ \E c \in Clients, name \in Paths : CreateCall(c, name)
    \/ \E c \in Clients : CreateLock(c)
    \/ \E c \in Clients, name \in Paths : WriteCall(c, name)
    \/ \E c \in Clients, name \in Paths : DeleteCall(c, name)
    \/ \E c \in Clients : DispatchCreate(c)
    \/ \E c \in Clients : DispatchDelete(c)
    \/ \E c \in Clients : DispatchWrite(c)
    \/ \E c \in Clients : WriteCopy(c)
    \/ \E c \in Clients : Reply(c)
    \/ \E c \in Clients, uflags \in UnmountFlags : UnmountDB(c, uflags)
    \/ CreateDatabaseLoad

Spec == Init /\ [][Next]_vars

-----------------------------------------------------------------------------
(* Snapshots under the transform flags: one caller, a handle created with any
   of the whole-image transforms, unmounts with and without per-file
   compression, loads with any of the transforms, and Commit *)

SnapClient == "c1"

\* Image files that did not come from this program's UnmountDB: the seed image
\* with another signature in its stream header, and the seed image with the
\* payload bytes of its file record altered
BadSignature(file) ==
    [file EXCEPT !.bytes.hdr.Signature = MAGIC]
BadSum(file) ==
    [file EXCEPT !.bytes.recs =
        [k \in DOMAIN @ |->
            IF @[k].UnzippedLen > 0
            THEN [@[k] EXCEPT !.bytes = [i \in 1..Len(@) |-> "0"]]
            ELSE @[k]]]

\* What is at the image's file name when the handle is created
SnapImages == {NoImage, SeedImage, BadSignature(SeedImage), BadSum(SeedImage)}
TransformFlags == SUBSET {"FLAG_COMPRESS", "FLAG_ENCRYPT"}
SnapUnmountFlags == { {}, {"FLAG_COMPRESS_FILES"} }

\* CreateDatabase(name, FLAG_DB_CREATE | transforms), then StartIOController
SnapInit ==
    /\ \E tf \in TransformFlags :
          LET h == CreateDatabase(NoImage, {"FLAG_DB_CREATE"} \cup tf)
          IN  /\ meta = h.meta
              /\ t_size = h.t_size
              /\ flags = {"FLAG_DB_CREATE"} \cup tf
    /\ disk \in SnapImages
    /\ create_sync = NoClient
    /\ disp = Receiving
    /\ pc = [c \in Clients |-> "idle"]
    /\ req = [c \in Clients |-> NoReq]
    /\ ret = NoRet
    /\ crashed = FALSE
    /\ nops = 0
    /\ reader = NoReader
    /\ writer = NoWriter

SnapNext ==
    \/ \E name \in Paths : CreateCall(SnapClient, name)
    \/ CreateLock(SnapClient)
    \/ \E name \in Paths : WriteCall(SnapClient, name)
    \/ \E name \in Paths : DeleteCall(SnapClient, name)
    \/ DispatchCreate(SnapClient)
    \/ DispatchDelete(SnapClient)
    \/ DispatchWrite(SnapClient)
    \/ WriteCopy(SnapClient)
    \/ Reply(SnapClient)
    \/ \E uflags \in SnapUnmountFlags : UnmountDB(SnapClient, uflags)
    \/ \E tf \in TransformFlags : Remount({"FLAG_DB_LOAD"} \cup tf)
    \/ CreateDatabaseLoadOrCreate
    \/ Commit(SnapClient)

SnapSpec == SnapInit /\ [][SnapNext]_vars

-----------------------------------------------------------------------------
(* The views: one client that also holds a Reader and a Writer, on a handle
   loaded from an image with an empty file and a file longer than the
   payloads written *)

ViewClient == "c1"
EmptyPath == <<"/", "a">>
LongPattern == SubSeq(ByteName, 1, MaxLen + 2)

\* The paths the client opens views on
ViewPaths == Paths \ {ROOT}

ViewImage ==
    LET m1 == createIRP(CreateHandle.meta, SeedPath).meta
        m2 == createIRP(m1, EmptyPath).meta
        w == writeInternal(0, m2[s(SeedPath)], LongPattern)
    IN  writeFsStream(UnmountStream(MapSet(m2, s(SeedPath), w.file), {}), {"FLAG_DB_CREATE"})

ViewInit ==
    /\ LET h == CreateDatabase(ViewImage, {"FLAG_DB_LOAD"})
       IN  /\ meta = h.meta
           /\ t_size = h.t_size
    /\ flags = {"FLAG_DB_LOAD"}
    /\ disk = ViewImage
    /\ create_sync = NoClient
    /\ disp = Receiving
    /\ pc = [c \in Clients |-> "idle"]
    /\ req = [c \in Clients |-> NoReq]
    /\ ret = NoRet
    /\ crashed = FALSE
    /\ nops = 0
    /\ reader = NoReader
    /\ writer = NoWriter

ViewNext ==
    \/ \E name \in CreatePaths : CreateCall(ViewClient, name)
    \/ CreateLock(ViewClient)
    \/ \E name \in Paths : DeleteCall(ViewClient, name)
    \/ DispatchCreate(ViewClient)
    \/ DispatchDelete(ViewClient)
    \/ DispatchWrite(ViewClient)
    \/ WriteCopy(ViewClient)
    \/ Reply(ViewClient)
    \/ \E name \in ViewPaths : NewReader(ViewClient, name)
    \/ \E r \in Buffers : ReaderReadCall(ViewClient, r)
    \/ \E name \in ViewPaths : NewWriter(ViewClient, name)
    \/ \E p \in WriterPayloads : WriterWriteCall(ViewClient, p)

ViewSpec == ViewInit /\ [][ViewNext]_vars

-----------------------------------------------------------------------------
(* Purge: the clients of Spec, one of which may also send a Purge envelope *)

PurgeClient == "c2"

PurgeNext ==
    \/ \E c \in Clients, name \in Paths : CreateCall(c, name)
    \/ \E c \in Clients : CreateLock(c)
    \/ \E c \in Clients, name \in Paths : WriteCall(c, name)
    \/ \E c \in Clients, name \in Paths : DeleteCall(c, name)
    \/ \E c \in Clients : DispatchCreate(c)
    \/ \E c \in Clients : DispatchDelete(c)
    \/ \E c \in Clients : DispatchWrite(c)
    \/ \E c \in Clients : WriteCopy(c)
    \/ \E c \in Clients : Reply(c)
    \/ PurgeCall(PurgeClient)
    \/ DispatchPurge(PurgeClient)
    \/ \E c \in Clients : SendOnClosed(c)

PurgeSpec == Init /\ [][PurgeNext]_vars

-----------------------------------------------------------------------------
(* UnmountDB beside requests in flight: one client sends Create, Write and
   Delete requests, the other unmounts.  UnmountDB reads the map twice, in its
   range loop (one worker per key) and in GetFileCount, and the dispatcher may
   run in between *)

RequestClient == "c1"
UnmountClient == "c2"

\* The caller of UnmountDB past the range loop: the buffers its workers send
\* on commit_ch, by key
Unmounting(uflags) ==
    [op |-> "UnmountDB", name |-> <<>>, data |-> <<>>, file |-> NIL,
     sent |-> UnmountStream(meta, uflags).recs]

\* The stream after the receive loop has taken total_files buffers
FunnelStream(sent, total_files) ==
    [hdr |-> [Signature |-> FS_SIGNATURE, FileCount |-> total_files], recs |-> sent]

\* UnmountDB's range loop over f.meta: every key's entry is dereferenced and a
\* worker is started for it
UnmountRange(c, uflags) ==
    /\ CanCall(c)
    /\ nops' = nops + 1
    /\ IF UnmountPanics(meta)
       THEN /\ crashed' = TRUE
            /\ UNCHANGED <<pc, req>>
       ELSE /\ pc' = [pc EXCEPT ![c] = "funnel"]
            /\ req' = [req EXCEPT ![c] = Unmounting(uflags)]
            /\ UNCHANGED crashed
    /\ NoReturn
    /\ UNCHANGED <<meta, t_size, flags, create_sync, disp, disk>>
    /\ UNCHANGED views

\* total_files := f.GetFileCount() - 1, the receive loop, close(commit_ch) and
\* writeFsStream.  With more buffers to take than workers that send, the
\* receive never returns; with fewer, the channel is closed under a worker
\* that is blocked sending, which panics
UnmountFunnel(c) ==
    /\ ~crashed
    /\ pc[c] = "funnel"
    /\ LET total_files == GetFileCount(meta) - 1
           workers == Cardinality(DOMAIN req[c].sent)
       IN  IF total_files > workers
           THEN /\ pc' = [pc EXCEPT ![c] = "blocked"]
                /\ NoReturn
                /\ UNCHANGED <<req, disk, crashed>>
           ELSE IF total_files < workers
           THEN /\ crashed' = TRUE
                /\ NoReturn
                /\ UNCHANGED <<pc, req, disk>>
           ELSE /\ disk' = writeFsStream(FunnelStream(req[c].sent, total_files), flags)
                /\ pc' = [pc EXCEPT ![c] = "idle"]
                /\ req' = [req EXCEPT ![c] = NoReq]
                /\ Return(c, "UnmountDB", <<>>, <<>>, NoErr, [total_files |-> total_files])
                /\ UNCHANGED crashed
    /\ UNCHANGED <<meta, t_size, flags, create_sync, disp, nops>>
    /\ UNCHANGED views

RaceNext ==
    \/ \E name \in Paths : CreateCall(RequestClient, name)
    \/ CreateLock(RequestClient)
    \/ \E name \in Paths : WriteCall(RequestClient, name)
    \/ \E name \in Paths : DeleteCall(RequestClient, name)
    \/ DispatchCreate(RequestClient)
    \/ DispatchDelete(RequestClient)
    \/ DispatchWrite(RequestClient)
    \/ WriteCopy(RequestClient)
    \/ Reply(RequestClient)
    \/ \E uflags \in UnmountFlags : UnmountRange(UnmountClient, uflags)
    \/ UnmountFunnel(UnmountClient)

RaceSpec == Init /\ [][RaceNext]_vars

-----------------------------------------------------------------------------
(* Create with any string: one client that also passes Create the empty
   string and names without a leading "/" *)

NameClient == "c1"

\* Names of at most MAX_FILENAME_LENGTH bytes that are not paths from the root
OddNames == { <<>>, <<"a">>, <<"a", "/", "b">> }

NameNext ==
    \/ \E name \in Paths \cup OddNames : CreateCall(NameClient, name)
    \/ CreateLock(NameClient)
    \/ \E name \in Paths : WriteCall(NameClient, name)
    \/ \E name \in Paths : DeleteCall(NameClient, name)
    \/ DispatchCreate(NameClient)
    \/ DispatchDelete(NameClient)
    \/ DispatchWrite(NameClient)
    \/ WriteCopy(NameClient)
    \/ Reply(NameClient)

NameSpec == Init /\ [][NameNext]_vars

-----------------------------------------------------------------------------
(* Vocabulary of the properties *)

\* Client c starts the facade call op on name in this step
Calls(c, op, name) ==
    /\ pc[c] = "idle"
    /\ \/ pc'[c] # "idle" /\ req'[c].op = op /\ req'[c].name = name
       \/ pc'[c] = "idle" /\ ret'.by = c /\ ret'.op = op /\ ret'.name = name

\* The facade rejected that call in the same step: no envelope, an error value
Rejected(c) == pc'[c] = "idle" /\ req'[c] = NoReq /\ ret'.by = c /\ ret'.err # NoErr

\* The dispatcher takes client c's envelope of kind op in this step
Handles(c, op) == pc[c] = "send" /\ req[c].op = op /\ pc'[c] = "wait"

\* The call that returned in the last step
Returned(op) == ret.op = op
ReturnedOk(op) == ret.op = op /\ ret.err = NoErr

IsEntry(e) == e # NIL /\ e # ABSENT
IsDirectory(e) == IsEntry(e) /\ "FLAG_DIRECTORY" \in e.flags
IsFile(e) == IsEntry(e) /\ "FLAG_FILE" \in e.flags

\* The entry a Create of name is to leave at its path: empty, of the name's kind
FreshEntry(name) == [NewFile EXCEPT !.filename = name, !.flags = KindOf(name)]

\* The non-empty proper prefixes of name that end before a "/"
Ancestors(name) ==
    { SubSeq(name, 1, i - 1) : i \in { j \in 2..Len(name) : name[j] = "/" } }

\* The (path, kind, payload) triples of a namespace, the root left out
Triples(m) ==
    { <<m[k].filename, m[k].flags \cap {"FLAG_FILE", "FLAG_DIRECTORY"}, m[k].data>> :
        k \in { x \in DOMAIN m : m[x] # NIL /\ m[x].filename # ROOT } }

\* The sum of the payload lengths of the file entries of a map
RECURSIVE SumFileSizes(_, _)
SumFileSizes(m, keys) ==
    IF keys = {} THEN 0
    ELSE LET k == CHOOSE x \in keys : TRUE
         IN  (IF IsFile(m[k]) THEN Len(m[k].data) ELSE 0) + SumFileSizes(m, keys \ {k})

-----------------------------------------------------------------------------
(* C1: in every reachable state the namespace holds an entry with path "/" at
   digest_path("/"); no step removes it or puts a new entry in its slot (its
   path and kind never change); the dispatcher answers Delete("/") with an
   error and leaves the namespace and TotalSize unchanged, and the call returns
   that error. *)
C1_RootAlwaysPresent ==
    /\ [](IsEntry(Check(ROOT)) /\ Check(ROOT).filename = ROOT)
    /\ [][ /\ Check(ROOT).flags' = Check(ROOT).flags
           /\ \A c \in Clients :
                /\ Handles(c, "Delete") /\ req[c].name = ROOT
                     => meta' = meta /\ t_size' = t_size /\ disp'.status # NoErr
                /\ pc[c] = "wait" /\ req[c].op = "Delete" /\ req[c].name = ROOT
                     /\ pc'[c] = "idle"
                     => ret'.err # NoErr /\ meta' = meta
         ]_vars

\* Delete("/") has returned its error on a handle built in load mode
C1_Witness ==
    /\ Returned("Delete") /\ ret.name = ROOT /\ ret.err # NoErr
    /\ "FLAG_DB_LOAD" \in flags
    /\ IsEntry(Check(ROOT))

-----------------------------------------------------------------------------
(* C2: in every reachable state of a serving handle GetTotalFilesizes equals
   the sum of the payload lengths of the file entries the namespace holds at
   that moment; in particular a deleted file's bytes no longer count. *)
C2_TotalIsSumOfFiles ==
    ~crashed => GetTotalFilesizes = SumFileSizes(meta, DOMAIN meta)

-----------------------------------------------------------------------------
(* C3: when Write(p, d) with non-empty d has returned success, and nothing has
   touched p since, Read(p) returns d without error and GetFileSize(p) is
   len(d). *)
C3_ReadReturnsWritten ==
    ReturnedOk("Write") /\ ret.data # <<>>
        => /\ Read(ret.name).err = NoErr
           /\ Read(ret.name).data = ret.data
           /\ GetFileSize(ret.name).err = NoErr
           /\ GetFileSize(ret.name).size = Len(ret.data)

-----------------------------------------------------------------------------
(* C4: a Create(p) called while p has an entry ("/" included) returns the error
   "already exists" in the same step, builds no envelope and takes no lock, and
   leaves the namespace (so the entry's kind, payload and digest) and TotalSize
   as they were. *)
C4_CreateExistingRejected ==
    [][ \A c \in Clients, p \in Paths :
          Calls(c, "Create", p) /\ Check(p) # NIL
            => /\ Rejected(c)
               /\ ret'.err = "create: File already exists"
               /\ meta' = meta /\ t_size' = t_size
               /\ req' = req /\ create_sync' = create_sync /\ disp' = disp
      ]_vars

\* Create has been rejected on a file that holds bytes, and the file is as it was
C4_Witness ==
    /\ Returned("Create") /\ ret.err = "create: File already exists"
    /\ IsFile(ret.was) /\ ret.was.data # <<>>
    /\ Check(ret.name) = ret.was
    /\ GetTotalFilesizes = Len(ret.was.data)

-----------------------------------------------------------------------------
(* C5: a Write(p, d) called while p has no entry returns an error in the same
   step and sends no envelope; the namespace and TotalSize are unchanged, so
   neither p nor an ancestor directory of p comes into being. A Write envelope
   that reaches the dispatcher after p lost its entry changes nothing either. *)
C5_WriteAbsentRejected ==
    [][ \A c \in Clients :
          /\ \A p \in Paths :
                Calls(c, "Write", p) /\ Check(p) = NIL
                  => /\ Rejected(c)
                     /\ meta' = meta /\ t_size' = t_size
                     /\ req' = req /\ disp' = disp
          /\ Handles(c, "Write") /\ Check(req[c].name) = NIL
                => meta' = meta /\ t_size' = t_size
      ]_vars

\* Write has been rejected on a path whose slot and whose parent's slot are empty
C5_Witness ==
    /\ Returned("Write") /\ ret.err = "write: Cannot write to nonexistent file"
    /\ ret.name = SeedPath
    /\ ret.was = ABSENT
    /\ \A q \in Ancestors(ret.name) :
          Slot(meta, q) = ABSENT /\ Slot(meta, q \o <<"/">>) = ABSENT

-----------------------------------------------------------------------------
(* C6: once Delete(p) has returned success Check(p) returns nothing, p is not
   the root; a Create(p) called on the cleared slot is accepted by the facade,
   and when the dispatcher runs it on the cleared slot it leaves a new entry of
   p's kind with empty payload and empty digest and replies success, which the
   call returns. *)
C6_DeleteThenCreate ==
    /\ [](ReturnedOk("Delete") => Check(ret.name) = NIL /\ ret.name # ROOT)
    /\ [][ \A c \in Clients :
             /\ \A p \in Paths :
                   Calls(c, "Create", p) /\ Slot(meta, p) = NIL
                     => ~Rejected(c) /\ pc'[c] = "lock" /\ req'[c].name = p
             /\ Handles(c, "Create") /\ Slot(meta, req[c].name) = NIL
                   => /\ check(meta', req[c].name) = FreshEntry(req[c].name)
                      /\ disp'.status = NoErr /\ disp'.to = c
                      /\ ~crashed'
             /\ pc[c] = "wait" /\ req[c].op = "Create" /\ pc'[c] = "idle"
                   /\ disp.was = NIL
                   => /\ ret'.err = NoErr
                      /\ check(meta', req[c].name) = FreshEntry(req[c].name)
          ]_vars

\* Create has returned success on a path whose slot a Delete had cleared
C6_Witness ==
    /\ ReturnedOk("Create") /\ ret.was = NIL
    /\ Check(ret.name) = FreshEntry(ret.name)
    /\ ret.name = SeedPath

-----------------------------------------------------------------------------
(* C7: Write is idempotent. In every reachable state, for every file p and every
   payload d, writing d to p twice gives the entry (payload, digest) and the
   TotalSize that writing it once gives; and when the dispatcher runs a
   Write(p, d) on a file that already holds d with d's digest, which is the
   state a Write(p, d) leaves, TotalSize does not move and, once the write is
   complete, the entry is what it was and the reply is success. *)
C7_WriteIdempotent ==
    /\ [](\A p \in Paths, d \in Payloads :
            IsFile(Check(p))
              => LET once == writeInternal(t_size, Check(p), d)
                     twice == writeInternal(once.t_size, once.file, d)
                 IN  /\ twice.file = once.file
                     /\ twice.t_size = once.t_size
                     /\ once.n = Len(d) /\ twice.n = Len(d))
    /\ [][ \A c \in Clients :
             LET name == req[c].name
                 d == req[c].data
                 Holds(e) == /\ IsFile(e) /\ e.data = d
                             /\ e.datasum = (IF d = <<>> THEN <<>> ELSE s(d))
             IN  /\ Handles(c, "Write") /\ Holds(Check(name)) => t_size' = t_size
                 /\ disp.st = "write" /\ disp.to = c /\ disp'.st = "reply"
                       /\ Holds(disp.was)
                       => /\ check(meta', name) = disp.was
                          /\ t_size' = t_size
                          /\ disp'.status = NoErr
          ]_vars

\* A Write has returned success on a file that held the very bytes it wrote
C7_Witness ==
    /\ ReturnedOk("Write") /\ ret.data # <<>>
    /\ IsFile(ret.was) /\ ret.was.data = ret.data
    /\ Check(ret.name) = ret.was

-----------------------------------------------------------------------------
(* C8: when Create(p) has returned success for a p that does not end in "/",
   Check(q + "/") returns a directory entry for every non-empty proper prefix
   q of p that ends before a "/". *)
C8_AncestorsUnderSlashKey ==
    ReturnedOk("Create") /\ ~EndsInSlash(ret.name)
        => \A q \in Ancestors(ret.name) : IsDirectory(Check(q \o <<"/">>))

-----------------------------------------------------------------------------
(* C9: when the dispatcher runs Create(q + "/") on a namespace where neither
   q + "/" nor q has an entry, then afterwards Check(q + "/") returns a
   directory entry and Check(q) still returns nothing. *)
C9_DirectoryKeyDistinct ==
    [][ \A c \in Clients :
          LET name == req[c].name
              q == SubSeq(name, 1, Len(name) - 1)
          IN  Handles(c, "Create") /\ EndsInSlash(name) /\ Len(name) > 1
                /\ check(meta, name) = NIL /\ check(meta, q) = NIL
                => /\ IsDirectory(check(meta', name))
                   /\ check(meta', q) = NIL
      ]_vars

-----------------------------------------------------------------------------
(* C10: of two concurrent Create(p) calls on an absent p only one creates the
   entry: when the dispatcher takes the Create envelope of the second, and p
   holds the entry the first one made, it replies with an error and leaves the
   namespace, hence that entry and the payload written to it, as it is. *)
C10_OneCreateWins ==
    [][ \A c \in Clients :
          Handles(c, "Create") /\ IsEntry(Check(req[c].name))
            /\ Check(req[c].name).filename = req[c].name
            => meta' = meta /\ disp'.status # NoErr
      ]_vars

-----------------------------------------------------------------------------
(* C11: while the dispatcher is replacing the payload of a file p with d, and
   until the Write returns, a Read(p) returns the complete payload p held
   before the write or the complete d, nothing else. *)
C11_ReadNeverTorn ==
    \A c \in Clients :
        pc[c] = "wait" /\ req[c].op = "Write"
          /\ disp.st \in {"write", "reply"} /\ disp.to = c
          /\ IsFile(disp.was)
          => /\ Read(req[c].name).err = NoErr
             /\ Read(req[c].name).data \in {disp.was.data, req[c].data}

-----------------------------------------------------------------------------
(* C12: when the dispatcher takes a Write envelope whose path has no entry at
   that moment, it replies on the envelope's channel with an error status (so
   the Write call can return). *)
C12_WriteAlwaysAnswered ==
    [][ \A c \in Clients :
          Handles(c, "Write") /\ Check(req[c].name) = NIL
            => disp'.st = "reply" /\ disp'.to = c /\ disp'.status # NoErr
      ]_vars

-----------------------------------------------------------------------------
(* C13: when UnmountDB(0) returns on a quiescent handle that has no whole-image
   transform flag, loading the image it wrote (CreateDatabase in load mode)
   gives a handle whose namespace has the same (path, kind, payload) triples,
   the root left out. *)
C13_SnapshotRoundTrip ==
    [][ Quiescent /\ ret'.op = "UnmountDB" /\ ret'.was.uflags = {}
          /\ flags \cap {"FLAG_COMPRESS", "FLAG_ENCRYPT"} = {}
          => LET h == CreateDatabase(disk', {"FLAG_DB_LOAD"})
             IN  h.ok /\ Triples(h.meta) = Triples(meta)
      ]_vars

-----------------------------------------------------------------------------
(* C14: when UnmountDB(FLAG_COMPRESS_FILES) returns on a quiescent handle that
   was created with FLAG_ENCRYPT | FLAG_COMPRESS, loading the image with those
   same flags gives a handle, and every file of the unmounted namespace is in
   it with the same bytes. *)
C14_TransformRoundTrip ==
    [][ Quiescent /\ ret'.op = "UnmountDB"
          /\ ret'.was.uflags = {"FLAG_COMPRESS_FILES"}
          /\ {"FLAG_ENCRYPT", "FLAG_COMPRESS"} \subseteq flags
          => LET h == CreateDatabase(disk', {"FLAG_DB_LOAD", "FLAG_ENCRYPT", "FLAG_COMPRESS"})
             IN  /\ ~h.panic
                 /\ h.ok
                 /\ \A k \in DOMAIN meta :
                       IsFile(meta[k])
                         => /\ IsFile(check(h.meta, meta[k].filename))
                            /\ check(h.meta, meta[k].filename).data = meta[k].data
      ]_vars

-----------------------------------------------------------------------------
(* C15: Commit on a quiescent serving handle, whatever transform flags the
   handle was created with, returns without error a new handle whose namespace
   has the (path, kind, payload) triples the old one had. *)
C15_CommitKeepsNamespace ==
    [][ \A c \in Clients :
          pc[c] = "idle" /\ Quiescent /\ ret'.op = "Commit" /\ ret'.by = c
            => /\ ret'.err = NoErr
               /\ ret'.was.handle
               /\ Triples(meta') = Triples(meta)
      ]_vars

\* The entry at the path of the Reader that made the Read which just returned
ReadEntry == Slot(meta, ret.was.reader.Name)

\* C16: a Reader.Read with a buffer shorter than the current non-empty payload
\* of its file returns len(payload) - len(buffer) - 1 and no end-of-stream
\* marker, has copied that many payload bytes (as far as the buffer goes) and
\* has advanced the Reader's offset by len(buffer)
C16_ShortBufferRead ==
    (Returned("Reader.Read") /\ IsFile(ReadEntry)
        /\ Len(ReadEntry.data) >= 1 /\ Len(ret.was.r) < Len(ReadEntry.data))
    => LET n == Len(ReadEntry.data) - Len(ret.was.r) - 1
       IN  /\ ret.was.n = n
           /\ ret.err = NoErr
           /\ \A i \in 1..Len(ret.was.r) : i <= n => ret.data[i] = ReadEntry.data[i]
           /\ Len(ret.data) = Len(ret.was.r)
           /\ reader.Offset = ret.was.reader.Offset + Len(ret.was.r)

\* C17: a Reader.Read with a buffer at least as long as the current non-empty
\* payload of its file returns len(payload) and end-of-stream and has copied the
\* whole payload, the payload being the one at the path when Read is called,
\* whenever the Reader was made
C17_WholePayloadRead ==
    (Returned("Reader.Read") /\ IsFile(ReadEntry)
        /\ Len(ReadEntry.data) >= 1 /\ Len(ret.was.r) >= Len(ReadEntry.data))
    => /\ ret.was.n = Len(ReadEntry.data)
       /\ ret.err = EOF
       /\ SubSeq(ret.data, 1, Len(ReadEntry.data)) = ReadEntry.data

\* C18: Writer.Write with an empty buffer returns (0, error) and sends no
\* envelope; with a non-empty buffer it forwards to FSHeader.Write (whose
\* rejection it returns with a count of 0, and whose envelope carries the
\* Writer's path and the bytes); when it returns it has returned either
\* (len(bytes), io.EOF), and then the payload at its path equals bytes, or
\* (0, error)
C18_WriterWrite ==
    /\ [](Returned("Writer.Write") =>
            IF ret.err = EOF
            THEN /\ ret.was.n = Len(ret.data)
                 /\ IsEntry(Slot(meta, ret.name))
                 /\ Slot(meta, ret.name).data = ret.data
            ELSE ret.was.n = 0 /\ ret.err # NoErr)
    /\ [][\A c \in Clients :
            Calls(c, "Writer.Write", writer.Name) =>
                LET p == IF pc'[c] = "idle" THEN ret'.data ELSE req'[c].data
                IN  IF Len(p) < 1
                    THEN Rejected(c) /\ UNCHANGED <<meta, t_size, disp>>
                    ELSE \/ Rejected(c) /\ ret'.err = WriteRejection(meta, writer.Name)
                         \/ /\ pc'[c] = "send"
                            /\ Envelope(req'[c].op) = "Write"
                            /\ req'[c].name = writer.Name
                            /\ req'[c].data = p
                            /\ WriteRejection(meta, writer.Name) = NoErr]_vars

\* A Writer.Write of three bytes returned (3, io.EOF) and the file holds them
C18_Witness ==
    /\ Returned("Writer.Write")
    /\ ret.err = EOF
    /\ ret.was.n = MaxLen + 1
    /\ IsFile(Slot(meta, ret.name))
    /\ Slot(meta, ret.name).data = SubSeq(ByteName, 1, MaxLen + 1)

\* C19: a call of UnmountDB leaves the namespace, TotalSize and the creation
\* flags as they were and the handle serving: the dispatcher is still there
\* for the requests issued afterwards
C19_UnmountKeepsServing ==
    [][\A c \in Clients, uflags \in UnmountFlags :
            UnmountDB(c, uflags) =>
                /\ meta' = meta
                /\ t_size' = t_size
                /\ flags' = flags
                /\ disp' = disp
                /\ ~crashed']_vars

\* C20: a Create with a path longer than 256 bytes and a Delete of a path that
\* has no entry return an error without sending an envelope and leave the
\* namespace and TotalSize as they were; no envelope the dispatcher takes is
\* for such a Create or for a Delete that found no entry
C20_RejectedNeverDispatched ==
    [][\A c \in Clients :
          /\ \A name \in CreatePaths :
                (\/ Calls(c, "Create", name) /\ Len(name) > MAX_FILENAME_LENGTH
                 \/ Calls(c, "Delete", name) /\ Check(name) = NIL)
                => /\ Rejected(c)
                   /\ UNCHANGED <<meta, t_size, disp>>
          /\ Handles(c, "Create") => Len(req[c].name) <= MAX_FILENAME_LENGTH
          /\ Handles(c, "Delete") => req[c].file # NIL]_vars

\* A Create with a path of 257 bytes has just been rejected for its length
C20_Witness ==
    /\ Returned("Create")
    /\ Len(ret.name) > MAX_FILENAME_LENGTH
    /\ ret.err = "create: File name is too long"
    /\ ret.was = ABSENT

-----------------------------------------------------------------------------
\* The stream CreateDatabase decoded in the call that just returned, when the
\* image was there and its bytes are a gob stream
LoadedStream == readFsStream(disk, ret'.was.flags).data
LoadDecodes ==
    /\ ret'.op = "CreateDatabase"
    /\ "FLAG_DB_LOAD" \in ret'.was.flags
    /\ "FLAG_COMPRESS" \notin ret'.was.flags
    /\ disk.exists
    /\ "hdr" \in DOMAIN LoadedStream

\* C21: CreateDatabase in load mode on an image whose stream header decodes
\* and whose signature is not "govfs_header" returns no handle and an error
\* value that is not nil
C21_BadSignatureRejected ==
    [][(LoadDecodes /\ LoadedStream.hdr.Signature # FS_SIGNATURE)
          => ~ret'.was.handle /\ ret'.err # NoErr]_vars

\* The records of the decoded stream whose payload is recovered (no per-file
\* compression) and does not have the digest the record carries
Mismatched ==
    { k \in DOMAIN LoadedStream.recs :
        LET r == LoadedStream.recs[k]
        IN  r.UnzippedLen > 0 /\ "FLAG_COMPRESS_FILES" \notin r.Flags
                /\ s(SubSeq(r.bytes, 1, r.UnzippedLen)) # r.RawSum }

\* C22: a load of a stream with the right signature in which some record with
\* UnzippedLen > 0 has a recovered payload whose digest is not the record's
\* returns an error and no handle, and nothing of the namespace built so far
\* is taken up
C22_SumMismatchFails ==
    [][(/\ LoadDecodes
        /\ LoadedStream.hdr.Signature = FS_SIGNATURE
        /\ \A k \in DOMAIN LoadedStream.recs :
               "FLAG_COMPRESS_FILES" \notin LoadedStream.recs[k].Flags
        /\ Mismatched # {})
          => /\ ~ret'.was.handle
             /\ ret'.err = "Invalid file sum"
             /\ UNCHANGED <<meta, t_size, flags>>]_vars

\* A load has just failed on its sums
C22_Witness ==
    /\ ret.op = "CreateDatabase"
    /\ ret.err = "Invalid file sum"
    /\ ~ret.was.handle
    /\ disk = BadSum(SeedImage)

-----------------------------------------------------------------------------
\* The dispatcher takes an envelope of client c in this step
Receives(c) == Handles(c, "Create") \/ Handles(c, "Delete") \/ Handles(c, "Write")

\* The namespace after the request of client c is applied to it
Applied(c) ==
    IF req[c].op = "Create" THEN createIRP(meta, req[c].name).meta
    ELSE IF req[c].op = "Delete"
    THEN IF DeleteIsRoot(req[c].file) THEN meta ELSE deleteIRP(meta, req[c].name).meta
    ELSE IF check(meta, req[c].name) = NIL THEN meta
    ELSE MapSet(meta, s(req[c].name),
                writeInternal(t_size, check(meta, req[c].name), req[c].data).file)

\* C23: the dispatcher receives an envelope only when it is not inside another
\* request and every request it received before has had its reply delivered;
\* the namespace changes only by the request being handled, and when that
\* request's reply is delivered the namespace is the one before the request
\* with the request applied
C23_OneRequestAtATime ==
    [][/\ \A c \in Clients :
            Receives(c) =>
                /\ disp = Receiving
                /\ \A o \in Clients \ {c} : pc[o] # "wait"
                /\ disp'.st = "reply" => meta' = Applied(c)
                /\ disp'.st = "write" => disp'.to = c
       /\ \A c \in Clients :
            (disp.st = "write" /\ disp.to = c /\ disp'.st = "reply")
                => meta' = MapSet(meta, s(req[c].name),
                                  writeInternal(0, disp.was, req[c].data).file)
       /\ (meta' # meta /\ ret'.op # "CreateDatabase")
            => \E c \in Clients : Receives(c) \/ (disp.st = "write" /\ disp.to = c)
      ]_vars

-----------------------------------------------------------------------------
\* C24: while the dispatcher replaces the payload of the entry at a path, the
\* lock it holds is the lock of that entry, whatever happened to the path
\* between the construction of the envelope and its dispatch
C24_LockOfReplacedEntry ==
    (disp.st = "write" /\ Len(req[disp.to].data) > 0)
        => LockHeld # NIL /\ LockHeld.live

-----------------------------------------------------------------------------
-----------------------------------------------------------------------------
\* The path q of the claim and a path below it
FilePath == <<"/", "a">>
BelowPath == <<"/", "a", "/", "b">>

\* No entry of the namespace has that path
NoEntryNamed(name) == \A k \in DOMAIN meta : meta[k] = NIL \/ meta[k].filename # name

\* C26: the file q and the directory q/ have different keys and coexist in
\* either order: a Create(q) is not rejected while the namespace holds q/x and
\* no entry of path q, and once Create(q) and Create(q/x) have both succeeded
\* the namespace holds a file entry for q and a directory entry for q/
C26_FileAndDirectoryCoexist ==
    [][/\ \A c \in Clients :
            (Calls(c, "Create", FilePath) /\ IsFile(Slot(meta, BelowPath))
                /\ NoEntryNamed(FilePath)) => ~Rejected(c)
       /\ (ret'.op = "Create" /\ ret'.err = NoErr /\ ret'.name \in {FilePath, BelowPath}
             /\ IsFile(Slot(meta', FilePath)) /\ IsFile(Slot(meta', BelowPath)))
           => IsDirectory(Slot(meta', FilePath \o <<"/">>))]_vars

-----------------------------------------------------------------------------
\* C27: Read(p) returns an error whenever p resolves to a directory entry, be
\* it created as such, synthesised as an ancestor, or the root "/"
C27_ReadDirectoryFails ==
    \A p \in Paths :
        (Check(p) # NIL /\ (IsDirectory(Check(p)) \/ Check(p).filename = ROOT))
            => Read(p).err # NoErr

-----------------------------------------------------------------------------
\* C28: in every state every directory entry, and the root, has an empty
\* payload: a Write to a path that resolves to one stores no bytes in it
C28_DirectoriesHoldNoBytes ==
    \A k \in DOMAIN meta :
        (meta[k] # NIL /\ (IsDirectory(meta[k]) \/ meta[k].filename = ROOT))
            => meta[k].data = <<>>

-----------------------------------------------------------------------------
\* C29: a Write of an empty payload to a path that has an entry changes neither
\* the namespace nor TotalSize in any of the dispatcher's steps, is answered
\* with success, and when it returns the entry is the one there was before
\* it, payload and digest
C29_EmptyWriteIsNoOp ==
    /\ [][\A c \in Clients :
            /\ (Handles(c, "Write") /\ Len(req[c].data) = 0 /\ Check(req[c].name) # NIL)
                  => meta' = meta /\ t_size' = t_size /\ disp'.st = "write"
            /\ (disp.st = "write" /\ disp.to = c /\ Len(req[c].data) = 0
                    /\ disp'.st = "reply")
                  => meta' = meta /\ t_size' = t_size /\ disp'.status = NoErr]_vars
    /\ []((Returned("Write") /\ ret.data = <<>> /\ IsEntry(ret.was))
           => ret.err = NoErr /\ Slot(meta, ret.name) = ret.was)

\* A Write of an empty payload to a file that holds bytes has returned success
\* and the file holds the same bytes
C29_Witness ==
    /\ ReturnedOk("Write")
    /\ ret.data = <<>>
    /\ IsFile(ret.was)
    /\ Len(ret.was.data) > 0
    /\ Slot(meta, ret.name) = ret.was

-----------------------------------------------------------------------------
-----------------------------------------------------------------------------
\* The keys of the live entries of a namespace other than the root
LiveNonRoot(m) == { k \in DOMAIN m : m[k] # NIL /\ m[k].filename # ROOT }

\* C31: a call of UnmountDB on a quiescent handle returns, without a fault,
\* whatever Create, Write and Delete calls came before: the stream it wrote
\* holds one record per live entry other than the root, none for the root, and
\* the FileCount of its header is both the number of records and the number of
\* live entries other than the root (a deleted path has no worker, no record)
C31_UnmountTerminates ==
    [][\A c \in Clients, uflags \in UnmountFlags :
          (Quiescent /\ UnmountDB(c, uflags)) =>
              /\ ~crashed'
              /\ ret'.op = "UnmountDB"
              /\ disk'.exists
              /\ s(ROOT) \notin DOMAIN disk'.bytes.recs
              /\ DOMAIN disk'.bytes.recs = LiveNonRoot(meta)
              /\ disk'.bytes.hdr.FileCount = Cardinality(DOMAIN disk'.bytes.recs)
              /\ disk'.bytes.hdr.FileCount = Cardinality(LiveNonRoot(meta))]_vars

-----------------------------------------------------------------------------
\* C32: an UnmountDB that runs beside Create or Delete requests returns: when
\* it counts the buffers to wait for, that count is the number of its workers
\* that send, so its receive loop neither waits for a buffer nobody sends nor
\* ends (and closes the funnel) before a worker has sent
C32_ConcurrentUnmountTerminates ==
    [][\A c \in Clients :
          (pc[c] = "funnel" /\ pc'[c] # "funnel") =>
              /\ GetFileCount(meta) - 1 = Cardinality(DOMAIN req[c].sent)
              /\ pc'[c] = "idle"
              /\ ret'.op = "UnmountDB" /\ ret'.by = c
              /\ ~crashed']_vars

-----------------------------------------------------------------------------
\* The orders in which the buffers of a set of workers can be received
RECURSIVE Orders(_)
Orders(S) ==
    IF S = {} THEN { <<>> }
    ELSE UNION { { <<x>> \o p : p \in Orders(S \ {x}) } : x \in S }

\* What a caller of CreateDatabase gets from a load: whether there is a handle
\* and, if so, its namespace and TotalSize
LoadResult(h) ==
    IF h.ok THEN [handle |-> TRUE, meta |-> h.meta, t_size |-> h.t_size]
    ELSE [handle |-> FALSE]

\* Loading the stream of an image gives the same result in whatever order its
\* records lie
OrderFree(file) ==
    \A p \in Orders(DOMAIN file.bytes.recs) :
        LoadResult(loadHeaderInOrder(file.bytes, p)) = LoadResult(loadHeader(file.bytes))

\* C33: whenever UnmountDB or Commit has written an image, or CreateDatabase
\* has read one, and its bytes are an untransformed stream with the signature,
\* loading that stream gives the same namespace and the same TotalSize (or
\* fails alike) for every order of the records behind the header
C33_LoadOrderIndependent ==
    [][(/\ ret'.op \in {"UnmountDB", "Commit", "CreateDatabase"}
        /\ disk'.exists
        /\ "hdr" \in DOMAIN disk'.bytes
        /\ disk'.bytes.hdr.Signature = FS_SIGNATURE)
          => OrderFree(disk')]_vars

\* UnmountDB has written an image with two records, one of them a file with
\* its payload, and the image loads
C33_Witness ==
    /\ Returned("UnmountDB")
    /\ disk.exists
    /\ "hdr" \in DOMAIN disk.bytes
    /\ Cardinality(DOMAIN disk.bytes.recs) >= 2
    /\ \E k \in DOMAIN disk.bytes.recs : disk.bytes.recs[k].UnzippedLen > 0
    /\ loadHeader(disk.bytes).ok
    /\ loadHeader(disk.bytes).t_size > 0

-----------------------------------------------------------------------------
\* The whole-image transforms among a handle's flags
Transforms(fl) == fl \cap {"FLAG_COMPRESS", "FLAG_ENCRYPT"}

\* C34: the bytes UnmountDB writes to disk are the stream compressed (when
\* FLAG_COMPRESS is set) and then encrypted (when FLAG_ENCRYPT is set), and
\* reading the image with the same flags hands the record decoder the stream
\* again, for each of the four combinations of the two flags
C34_TransformsInvert ==
    [][ret'.op = "UnmountDB" =>
          LET stream == UnmountStream(meta, ret'.was.uflags)
              compressed == IF "FLAG_COMPRESS" \in flags THEN Gzip(stream) ELSE stream
              encrypted == IF "FLAG_ENCRYPT" \in flags THEN RC4(compressed) ELSE compressed
          IN  /\ disk'.exists
              /\ disk'.bytes = encrypted
              /\ ~readFsStream(disk', Transforms(flags)).panic
              /\ readFsStream(disk', Transforms(flags)).data = stream]_vars

-----------------------------------------------------------------------------
\* The number of bytes loadHeader takes from the stream behind the record r:
\* it reads into a slice of UnzippedLen bytes, compressed or not
Consumed(r) == IF r.UnzippedLen > 0 THEN r.UnzippedLen ELSE 0

\* C35: for every record with UnzippedLen > 0 of a stream UnmountDB wrote, with
\* or without FLAG_COMPRESS_FILES, the loader takes exactly the bytes the
\* worker appended behind the record, and the load recovers for that path a
\* payload of exactly UnzippedLen bytes
C35_LoaderConsumesWhatWasAppended ==
    [][ret'.op = "UnmountDB" =>
          LET stream == UnmountStream(meta, ret'.was.uflags)
              h == loadHeader(stream)
          IN  \A k \in DOMAIN stream.recs :
                 stream.recs[k].UnzippedLen > 0 =>
                    /\ Consumed(stream.recs[k]) = Len(stream.recs[k].bytes)
                    /\ h.ok
                    /\ check(h.meta, stream.recs[k].Name) # NIL
                    /\ Len(check(h.meta, stream.recs[k].Name).data)
                          = stream.recs[k].UnzippedLen]_vars

-----------------------------------------------------------------------------
\* The keys under which GetFileList finds an entry of path name: each gives
\* one line of the list
ListedUnder(m, name) == { k \in DOMAIN m : m[k] # NIL /\ m[k].filename = name }

\* C36: in every state every entry of the namespace lies under the digest of
\* its own path; so no path is listed twice by GetFileList and Check of a
\* listed path returns the entry listed
C36_KeyIsDigestOfPath ==
    \A k \in DOMAIN meta :
        meta[k] # NIL =>
            /\ k = s(meta[k].filename)
            /\ ListedUnder(meta, meta[k].filename) = {k}
            /\ Check(meta[k].filename) = meta[k]

-----------------------------------------------------------------------------
\* The number of bytes of a buffer a call has written: the buffers handed to
\* Reader.Read are fresh from make, and no payload byte is zero
Copied(before, after) == Cardinality({ i \in 1..Len(before) : after[i] # before[i] })

\* C37: the count a Reader.Read returns is at least 0, at most the length of
\* the buffer, and the number of bytes the call copied into the buffer
C37_ReadCountWithinBuffer ==
    Returned("Reader.Read") =>
        /\ 0 <= ret.was.n
        /\ ret.was.n <= Len(ret.was.r)
        /\ ret.was.n = Copied(ret.was.r, ret.data)

-----------------------------------------------------------------------------
\* C38: a Read on a Reader whose file holds the payload it held when the
\* Reader was made, with a non-empty buffer shorter than the payload and the
\* Reader's offset inside the payload, puts in the buffer the bytes of the
\* payload that start at the offset (as many as fit), so that calls with one
\* buffer go through the file and their returns add up to the payload
C38_ReadsAdvanceThroughFile ==
    (/\ Returned("Reader.Read")
     /\ ret.was.reader.File = Live
     /\ IsFile(ReadEntry)
     /\ ReadEntry.data = LongPattern
     /\ Len(ret.was.r) >= 1
     /\ Len(ret.was.r) < Len(ReadEntry.data)
     /\ ret.was.reader.Offset < Len(ReadEntry.data))
    => LET o == ret.was.reader.Offset
           last == IF o + Len(ret.was.r) <= Len(ReadEntry.data)
                   THEN o + Len(ret.was.r) ELSE Len(ReadEntry.data)
           want == SubSeq(ReadEntry.data, o + 1, last)
       IN  /\ SubSeq(ret.data, 1, Len(want)) = want
           /\ reader.Offset = ret.was.reader.Offset + Len(ret.was.r)

-----------------------------------------------------------------------------
\* C39: when the dispatcher takes the Create envelope of a name of at most 256
\* bytes that had no entry, the empty string and names without a leading "/"
\* included, it does not fault and replies to the caller, so that Create
\* returns an entry or an error and later requests are served
C39_CreateAnyNameAnswered ==
    [][\A c \in Clients :
          (Handles(c, "Create") /\ Len(req[c].name) <= MAX_FILENAME_LENGTH) =>
              /\ ~crashed'
              /\ disp'.st = "reply"
              /\ disp'.to = c]_vars

-----------------------------------------------------------------------------
\* The image is there and its bytes are a stream loadHeader makes a handle of
ImageValid(file) ==
    /\ file.exists
    /\ "hdr" \in DOMAIN file.bytes
    /\ file.bytes.hdr.Signature = FS_SIGNATURE
    /\ loadHeader(file.bytes).ok

\* C40: CreateDatabase with FLAG_DB_LOAD | FLAG_DB_CREATE returns a handle on
\* the namespace loaded from the image when the image is there and valid, and
\* a handle on a new namespace that holds the root alone when the image is
\* missing or invalid; with FLAG_DB_LOAD alone and no image it returns an error
\* and no handle
C40_LoadOrCreate ==
    [][/\ CreateDatabaseLoadOrCreate =>
            /\ ~crashed'
            /\ ret'.op = "CreateDatabase"
            /\ ret'.was.handle
            /\ ret'.err = NoErr
            /\ IF ImageValid(disk)
               THEN /\ meta' = loadHeader(disk.bytes).meta
                    /\ t_size' = loadHeader(disk.bytes).t_size
               ELSE /\ meta' = CreateHandle.meta
                    /\ t_size' = 0
       /\ (~disk.exists /\ Remount({"FLAG_DB_LOAD"}))
            => /\ ret'.op = "CreateDatabase"
               /\ ~ret'.was.handle
               /\ ret'.err # NoErr
               /\ UNCHANGED <<meta, t_size, flags>>]_vars

====
